---------------------------- MODULE Spec2Model ----------------------------
(***************************************************************************)
(* Model of lib/ansible/modules/system/capabilities.py (CapabilitiesModule).*)
(*                                                                         *)
(* Python strings are modelled as sequences of one-character strings, so   *)
(* that the parsing, splitting and joining done by the module is computed  *)
(* character by character.  A clause is the pair <<capability, action>>,   *)
(* both strings.  Python's None is the record NoneVal; a list value is     *)
(* wrapped by ListVal.                                                     *)
(***************************************************************************)
EXTENDS Integers, Sequences, FiniteSets, TLC

(***************************************************************************)
(* Strings                                                                 *)
(***************************************************************************)
OPS == {"=", "-", "+"}

Whitespace == {" ", "\n"}

\* str.lower() on the alphabet used by the model
Lower(s) == [k \in 1..Len(s) |-> CASE s[k] = "A" -> "a"
                                   [] s[k] = "B" -> "b"
                                   [] s[k] = "E" -> "e"
                                   [] OTHER -> s[k]]

RECURSIVE LStrip(_)
LStrip(s) == IF s # <<>> /\ Head(s) \in Whitespace THEN LStrip(Tail(s)) ELSE s

RECURSIVE RStrip(_)
RStrip(s) == IF s # <<>> /\ s[Len(s)] \in Whitespace
             THEN RStrip(SubSeq(s, 1, Len(s) - 1)) ELSE s

\* str.strip()
Strip(s) == RStrip(LStrip(s))

\* str.split(): split on runs of whitespace, no empty items
RECURSIVE SplitWSFrom(_, _, _)
SplitWSFrom(s, cur, acc) ==
    IF s = <<>> THEN (IF cur = <<>> THEN acc ELSE Append(acc, cur))
    ELSE IF Head(s) \in Whitespace
         THEN SplitWSFrom(Tail(s), <<>>, IF cur = <<>> THEN acc ELSE Append(acc, cur))
         ELSE SplitWSFrom(Tail(s), Append(cur, Head(s)), acc)

SplitWS(s) == SplitWSFrom(s, <<>>, <<>>)

\* str.split(sep) for a one-character separator: empty items are kept
RECURSIVE SplitCharFrom(_, _, _, _)
SplitCharFrom(s, sep, cur, acc) ==
    IF s = <<>> THEN Append(acc, cur)
    ELSE IF Head(s) = sep
         THEN SplitCharFrom(Tail(s), sep, <<>>, Append(acc, cur))
         ELSE SplitCharFrom(Tail(s), sep, Append(cur, Head(s)), acc)

SplitChar(s, sep) == SplitCharFrom(s, sep, <<>>, <<>>)

\* str.split(' ='): the separator is the two characters space, equals
RECURSIVE SplitSpEqFrom(_, _, _)
SplitSpEqFrom(s, cur, acc) ==
    IF s = <<>> THEN Append(acc, cur)
    ELSE IF Len(s) >= 2 /\ s[1] = " " /\ s[2] = "="
         THEN SplitSpEqFrom(SubSeq(s, 3, Len(s)), <<>>, Append(acc, cur))
         ELSE SplitSpEqFrom(Tail(s), Append(cur, Head(s)), acc)

SplitSpEq(s) == SplitSpEqFrom(s, <<>>, <<>>)

\* str.count(' =')
CountSpEq(s) == Len(SplitSpEq(s)) - 1

\* sep.join(items)
RECURSIVE Join(_, _)
Join(sep, items) ==
    IF items = <<>> THEN <<>>
    ELSE IF Len(items) = 1 THEN items[1]
    ELSE items[1] \o sep \o Join(sep, Tail(items))

(***************************************************************************)
(* Python values                                                           *)
(***************************************************************************)
NoneVal == [none |-> TRUE, list |-> <<>>]

\* no message: the call returned without fail_json
NoMsg == <<"", {}>>

ListVal(l) == [none |-> FALSE, list |-> l]

(***************************************************************************)
(* ClauseParser: _parse_clause, _parse_clauses                             *)
(* A parse result is [ok, val]; ok = FALSE is the fail_json exit with the   *)
(* message NoOperatorMsg.  A message is the pair <<format, arguments>>.    *)
(***************************************************************************)
\* "Couldn't find operator (one of: %s)" % str(OPS)
NoOperatorMsg == <<"Couldn't find operator (one of: %s)", OPS>>

\* position of the first operator character of clause, 0 when there is none
FirstOp(clause) ==
    IF \E k \in 1..Len(clause) : clause[k] \in OPS
    THEN CHOOSE k \in 1..Len(clause) :
            /\ clause[k] \in OPS
            /\ \A j \in 1..(k - 1) : clause[j] \notin OPS
    ELSE 0

\* _parse_clause without the for-else: a clause without operator is taken whole
\* as the capability, with an empty action
_parse_clause_no_fail(clause) ==
    LET i == FirstOp(clause)
    IN  IF i = 0
        THEN [ok |-> TRUE, val |-> <<clause, <<>>>>]
        ELSE [ok |-> TRUE,
              val |-> <<SubSeq(clause, 1, i - 1), SubSeq(clause, i, Len(clause))>>]

_parse_clause(clause) ==
    LET i == FirstOp(clause)
    IN  IF i = 0
        THEN [ok |-> FALSE, val |-> <<>>]
        ELSE [ok |-> TRUE,
              val |-> <<SubSeq(clause, 1, i - 1), SubSeq(clause, i, Len(clause))>>]

\* the clauses one token contributes (comma-condensed tokens contribute several)
ParseToken(token) ==
    LET clause == Lower(token)
    IN  IF \E k \in 1..Len(clause) : clause[k] = ","
        THEN LET caps == SplitChar(clause, ",")
                 last == _parse_clause(caps[Len(caps)])
             IN  IF ~last.ok THEN [ok |-> FALSE, val |-> <<>>]
                 ELSE [ok |-> TRUE,
                       val |-> [k \in 1..Len(caps) |->
                                  <<IF k = Len(caps) THEN last.val[1] ELSE caps[k],
                                    last.val[2]>>]]
        ELSE LET one == _parse_clause(clause)
             IN  IF ~one.ok THEN [ok |-> FALSE, val |-> <<>>]
                 ELSE [ok |-> TRUE, val |-> <<one.val>>]

RECURSIVE ParseFrom(_, _)
ParseFrom(tokens, rval) ==
    IF tokens = <<>> THEN [ok |-> TRUE, val |-> rval]
    ELSE LET t == ParseToken(Head(tokens))
         IN  IF ~t.ok THEN [ok |-> FALSE, val |-> <<>>]
             ELSE ParseFrom(Tail(tokens), rval \o t.val)

_parse_clauses(clauses) == ParseFrom(clauses, <<>>)

(***************************************************************************)
(* ActionMerger: _merge_actions                                            *)
(* The scan state is [flags, mode, eq, l, err]; mode "none" is Python's    *)
(* None.  l is assigned None at the start of every action and never        *)
(* assigned again.  err is "" or the exception raised.                     *)
(***************************************************************************)
FlagChars == {"e", "i", "p"}

MergeChar(st, c) ==
    IF st.err # "" THEN st
    ELSE IF c = "="
         THEN IF st.eq THEN [st EXCEPT !.err = "AssertionError"]
              ELSE [st EXCEPT !.flags = {}, !.eq = TRUE, !.mode = "+"]
    ELSE IF c \in {"+", "-"}
         THEN IF st.l \in {"+", "-"} THEN [st EXCEPT !.err = "AssertionError"]
              ELSE [st EXCEPT !.mode = c]
    ELSE IF c \in FlagChars
         THEN IF st.mode = "none" THEN [st EXCEPT !.err = "AssertionError"]
              ELSE IF st.mode = "+" THEN [st EXCEPT !.flags = @ \cup {c}]
              ELSE IF st.mode = "-" THEN [st EXCEPT !.flags = @ \ {c}]
              ELSE st
    ELSE [st EXCEPT !.err = "Exception"]

RECURSIVE MergeChars(_, _)
MergeChars(st, action) ==
    IF action = <<>> THEN st
    ELSE MergeChars(MergeChar(st, Head(action)), Tail(action))

\* an iteration that starts from an empty flag set
MergeActionClearsFlags(st, action) ==
    IF st.err # "" THEN st
    ELSE MergeChars([st EXCEPT !.flags = {}, !.mode = "none", !.eq = FALSE, !.l = "none"],
                    action)

\* one iteration of "for action in actions"
MergeAction(st, action) ==
    IF st.err # "" THEN st
    ELSE MergeChars([st EXCEPT !.mode = "none", !.eq = FALSE, !.l = "none"], action)

RECURSIVE MergeActions(_, _)
MergeActions(st, actions) ==
    IF actions = <<>> THEN st
    ELSE MergeActions(MergeAction(st, Head(actions)), Tail(actions))

\* ''.join(sorted(flags))
SortedFlags(flags) ==
    (IF "e" \in flags THEN <<"e">> ELSE <<>>) \o
    (IF "i" \in flags THEN <<"i">> ELSE <<>>) \o
    (IF "p" \in flags THEN <<"p">> ELSE <<>>)

\* result [err, val]: err = "" and val the merged action, or err the exception
_merge_actions(actions) ==
    LET st == MergeActions([flags |-> {}, mode |-> "none", eq |-> FALSE,
                            l |-> "none", err |-> ""], actions)
    IN  IF st.err # "" THEN [err |-> st.err, val |-> <<>>]
        ELSE [err |-> "", val |-> <<"=">> \o SortedFlags(st.flags)]

(***************************************************************************)
(* merge_clauses: the loop over self.clauses.  clauses is the list object  *)
(* returned by getcap(); caps is the list of its capability names taken    *)
(* before the loop and not updated by it.  Result [err, val].              *)
(***************************************************************************)
\* list.index(): first position of cap in caps
IndexOf(caps, cap) ==
    CHOOSE k \in 1..Len(caps) : caps[k] = cap /\ \A j \in 1..(k - 1) : caps[j] # cap

\* the loop with the arguments of _merge_actions exchanged: the existing action
\* is applied after the desired one
RECURSIVE MergeLoopExistingLast(_, _, _)
MergeLoopExistingLast(clauses, caps, desired) ==
    IF desired = <<>> THEN [err |-> "", val |-> clauses]
    ELSE LET clause == Head(desired)
         IN  IF \E k \in 1..Len(caps) : caps[k] = clause[1]
             THEN LET i == IndexOf(caps, clause[1])
                      actions == _merge_actions(<<clause[2], clauses[i][2]>>)
                  IN  IF actions.err # "" THEN [err |-> actions.err, val |-> clauses]
                      ELSE MergeLoopExistingLast(
                               [clauses EXCEPT ![i] = <<clause[1], actions.val>>],
                               caps, Tail(desired))
             ELSE MergeLoopExistingLast(Append(clauses, clause), caps, Tail(desired))

RECURSIVE MergeLoop(_, _, _)
MergeLoop(clauses, caps, desired) ==
    IF desired = <<>> THEN [err |-> "", val |-> clauses]
    ELSE LET clause == Head(desired)
         IN  IF \E k \in 1..Len(caps) : caps[k] = clause[1]
             THEN LET i == IndexOf(caps, clause[1])
                      actions == _merge_actions(<<clauses[i][2], clause[2]>>)
                  IN  IF actions.err # "" THEN [err |-> actions.err, val |-> clauses]
                      ELSE MergeLoop([clauses EXCEPT ![i] = <<clause[1], actions.val>>],
                                     caps, Tail(desired))
             ELSE MergeLoop(Append(clauses, clause), caps, Tail(desired))

\* merge_clauses that starts from an empty list instead of the current clauses
merge_clauses_from_empty(current, desired) ==
    IF current.none THEN [err |-> "TypeError", val |-> <<>>]
    ELSE MergeLoop(<<>>, <<>>, desired)

\* merge_clauses given the value getcap() returned; iterating None is a TypeError
merge_clauses(current, desired) ==
    IF current.none THEN [err |-> "TypeError", val |-> <<>>]
    ELSE MergeLoop(current.list, [k \in 1..Len(current.list) |-> current.list[k][1]],
                   desired)

(***************************************************************************)
(* getcap: the part after run_command.  memo is self.__getcap, q the       *)
(* (rc, stdout) of the getcap invocation.  Result [fail, memo]: fail is    *)
(* NoMsg or the message of the fail_json exit; memo is the new             *)
(* self.__getcap, which is also the value returned.                        *)
(***************************************************************************)
getcap(memo, path, q) ==
    IF q.rc # 0 \/ (Strip(q.stdout) # path /\ CountSpEq(q.stdout) # 1)
    THEN [fail |-> <<"Unable to get capabilities of %s", {path}>>, memo |-> memo]
    ELSE IF Strip(q.stdout) # path
         THEN LET parsed == _parse_clauses(SplitWS(Strip(SplitSpEq(q.stdout)[2])))
              IN  IF ~parsed.ok THEN [fail |-> NoOperatorMsg, memo |-> memo]
                  ELSE [fail |-> NoMsg, memo |-> ListVal(parsed.val)]
         ELSE [fail |-> NoMsg, memo |-> memo]

\* ' '.join([''.join(clause) for clause in clauses])
ClausesStr(clauses) ==
    Join(<<" ">>, [k \in 1..Len(clauses) |-> clauses[k][1] \o clauses[k][2]])

(***************************************************************************)
(* The environment: the file's capability set and the getcap(8) and        *)
(* setcap(8) programs reached through module.run_command.  The file holds, *)
(* for each capability, a set of flags; the empty set is "not set".        *)
(***************************************************************************)
CapA == <<"a">>

CapB == <<"b">>

CapAll == <<"a", "l", "l">>

CapNames == {CapA, CapB}

NoCaps == [c \in CapNames |-> {}]

\* module.params['path'] as given, and the getcap output for a missing file
RawPath == <<" ", "/", "f">>

NoSuchFile == <<" ", "(", "N", "o", ")">>

\* cap_to_text(3): capabilities with the same flags are condensed into one
\* comma-separated clause; set flags are written with the + operator
RenderCaps(fc) ==
    IF fc[CapA] # {} /\ fc[CapA] = fc[CapB]
    THEN << CapA \o <<",">> \o CapB \o <<"+">> \o SortedFlags(fc[CapA]) >>
    ELSE (IF fc[CapA] # {} THEN << CapA \o <<"+">> \o SortedFlags(fc[CapA]) >> ELSE <<>>)
         \o
         (IF fc[CapB] # {} THEN << CapB \o <<"+">> \o SortedFlags(fc[CapB]) >> ELSE <<>>)

\* what a failing getcap and a failing setcap write: "G\n" and "S\n" on
\* stderr, and setcap "u\n" on stdout
GetcapErr == <<"G", "\n">>

SetcapErr == <<"S", "\n">>

SetcapOut == <<"u", "\n">>

\* getcap -v <path>: the (rc, stdout, stderr) triples the program can return;
\* honest marks the ones that report the file's capability set
GetcapRuns(path, fc) ==
    {[rc |-> 0, honest |-> TRUE, stderr |-> <<>>,
      stdout |-> path \o <<" ", "=">>
                 \o (IF RenderCaps(fc) = <<>> THEN <<>> ELSE <<" ">>)
                 \o Join(<<" ">>, RenderCaps(fc)) \o <<"\n">>]}
    \cup (IF fc = NoCaps
          THEN {[rc |-> 0, honest |-> TRUE, stderr |-> <<>>, stdout |-> path \o <<"\n">>]}
          ELSE {})
    \cup {[rc |-> 0, honest |-> FALSE, stderr |-> <<>>,
           stdout |-> path \o NoSuchFile \o <<"\n">>],
          [rc |-> 1, honest |-> FALSE, stderr |-> GetcapErr, stdout |-> <<>>]}

\* cap_from_text(3) on one action list applied to one capability's flags
RECURSIVE EnvAction(_, _, _)
EnvAction(flags, mode, action) ==
    IF action = <<>> THEN [ok |-> TRUE, flags |-> flags]
    ELSE LET c == Head(action)
         IN  IF c = "=" THEN EnvAction({}, "+", Tail(action))
             ELSE IF c \in {"+", "-"} THEN EnvAction(flags, c, Tail(action))
             ELSE IF c \in FlagChars
                  THEN EnvAction(IF mode = "+" THEN flags \cup {c} ELSE flags \ {c},
                                 mode, Tail(action))
             ELSE [ok |-> FALSE, flags |-> flags]

\* one clause token applied to a capability set
EnvClause(fc, token) ==
    LET i == FirstOp(token)
        names == SplitChar(SubSeq(token, 1, i - 1), ",")
        targets == {c \in CapNames : \E k \in 1..Len(names) : names[k] \in {c, CapAll, <<>>}}
    IN  IF i = 0 \/ \E k \in 1..Len(names) : names[k] \notin CapNames \cup {CapAll, <<>>}
        THEN [ok |-> FALSE, caps |-> fc]
        ELSE IF \E c \in targets : ~EnvAction(fc[c], "+", SubSeq(token, i, Len(token))).ok
        THEN [ok |-> FALSE, caps |-> fc]
        ELSE [ok |-> TRUE,
              caps |-> [c \in CapNames |->
                          IF c \in targets
                          THEN EnvAction(fc[c], "+", SubSeq(token, i, Len(token))).flags
                          ELSE fc[c]]]

RECURSIVE EnvClauses(_, _)
EnvClauses(fc, tokens) ==
    IF tokens = <<>> THEN [ok |-> TRUE, caps |-> fc]
    ELSE LET r == EnvClause(fc, Head(tokens))
         IN  IF ~r.ok THEN r ELSE EnvClauses(r.caps, Tail(tokens))

\* the capability set a setcap argument denotes: setcap replaces the whole set
CapFromText(str) == EnvClauses(NoCaps, SplitWS(str))

\* setcap -v <clauses> <path>: rc 0 when the file already holds the set
SetcapVerifyRuns(str, fc) ==
    {[rc |-> rc,
      honest |-> (rc = 0) = (CapFromText(str).ok /\ CapFromText(str).caps = fc)] :
        rc \in {0, 1}}

\* a setcap that applies the clauses to the set the file holds
SetcapRunsOntoCurrent(str, fc) ==
    (IF CapFromText(str).ok
     THEN {[rc |-> 0, caps |-> EnvClauses(fc, SplitWS(str)).caps, honest |-> TRUE,
            stdout |-> <<>>, stderr |-> <<>>]}
     ELSE {})
    \cup {[rc |-> 1, caps |-> fc, stdout |-> SetcapOut, stderr |-> SetcapErr,
           honest |-> ~CapFromText(str).ok]}

\* setcap <clauses> <path>: (rc, stdout, stderr, capability set afterwards)
SetcapRuns(str, fc) ==
    (IF CapFromText(str).ok
     THEN {[rc |-> 0, caps |-> CapFromText(str).caps, honest |-> TRUE,
            stdout |-> <<>>, stderr |-> <<>>]}
     ELSE {})
    \cup {[rc |-> 0, caps |-> fc, stdout |-> <<>>, stderr |-> <<>>,
           honest |-> CapFromText(str).ok /\ CapFromText(str).caps = fc],
          [rc |-> 1, caps |-> fc, stdout |-> SetcapOut, stderr |-> SetcapErr,
           honest |-> ~CapFromText(str).ok]}

(***************************************************************************)
(* Bounds and inputs                                                       *)
(***************************************************************************)
\* number of times the module is invoked, one after the other, on the file
MaxRuns == 2

\* largest number of clauses in a list-valued capability parameter
MaxClauses == 2

Procs == {1, 2}

\* clauses offered in a list-valued capability parameter:
\* a-e, b+e, a (no operator), A,b=p, a+i
ClausePool ==
    { <<"a", "-", "e">>, <<"b", "+", "e">>, <<"a">>,
      <<"A", ",", "b", "=", "p">>, <<"a", "+", "i">> }

RECURSIVE ListsUpTo(_)
ListsUpTo(n) ==
    IF n = 0 THEN {<<>>}
    ELSE ListsUpTo(n - 1) \cup
         {Append(l, t) : l \in {m \in ListsUpTo(n - 1) : Len(m) = n - 1}, t \in ClausePool}

\* string-valued capability parameters: " a-e  b+e\n", "all=", "b+x", ""
StrPool ==
    { <<" ", "a", "-", "e", " ", " ", "b", "+", "e", "\n">>,
      <<"a", "l", "l", "=">>, <<"b", "+", "x">>, <<>> }

\* module.params['capability'] (type raw): a string (str), a list of strings
\* (list), None or a value of another type
CapabilityParams ==
    {[type |-> "str", str |-> v, list |-> <<>>] : v \in StrPool}
    \cup {[type |-> "list", str |-> <<>>, list |-> v] : v \in ListsUpTo(MaxClauses) \ {<<>>}}
    \cup {[type |-> "NoneType", str |-> <<>>, list |-> <<>>],
          [type |-> "dict", str |-> <<>>, list |-> <<>>]}

\* capability sets the file can hold before the first run
InitFiles ==
    { NoCaps,
      [c \in CapNames |-> IF c = CapA THEN {"e", "p"} ELSE {}],
      [c \in CapNames |-> {"e", "p"}],
      [c \in CapNames |-> IF c = CapA THEN {"p"} ELSE {"i"}] }

(***************************************************************************)
(* State                                                                   *)
(***************************************************************************)
VARIABLES
    params,     \* params[p]: module.params and module.check_mode of invocation p
    self,       \* self[p]: the fields of the CapabilitiesModule object
    local,      \* local[p]: clauses (run), clauses_str (setcap), precaps (__setcap)
    pc,         \* pc[p]: the position of invocation p
    results,    \* results[p]: what each finished run of p reported (exit_json/fail_json)
    calls,      \* calls[p]: the run_command invocations of the current run, in order
    seen,       \* seen[p]: the getcap output of the current run before setcap ran
                \*          (pre, once read) and after it ran (post, once checked), and
                \*          the capability set on the file when the run started (file)
    fileCaps,   \* the capability set on the file
    file0,      \* the capability set on the file before the first run
    stable,     \* every getcap/setcap call so far behaved as its contract says
    kwargs,     \* kwargs[p]: the stdout and stderr keywords the current run of p
                \*            gave to exit_json/fail_json
    lastWriter, \* the process whose setcap exited 0 last (0: none yet)
    mergeArgs,  \* the arguments of a call of _merge_actions on its own
    mergeRet    \* what that call returned or raised

vars == <<params, self, local, pc, results, calls, seen, fileCaps, file0, stable,
          kwargs, lastWriter, mergeArgs, mergeRet>>

\* the variables of the call of _merge_actions on its own
mergeVars == <<mergeArgs, mergeRet>>

\* a keyword that was not given
Absent == <<"absent">>

NoKwargs == [stdout |-> Absent, stderr |-> Absent]

\* _merge_actions has not been called
NotCalled == [err |-> "not called", val |-> <<>>]

NewSelf == [path |-> <<>>, exclusive |-> FALSE, clauses |-> <<>>, __getcap |-> NoneVal]

NewLocal == [clauses |-> NoneVal, clauses_str |-> <<>>, precaps |-> NoneVal]

NewSeen == [pre |-> <<>>, post |-> <<>>, read |-> FALSE, checked |-> FALSE,
            file |-> NoCaps]

\* exit_json / fail_json / an uncaught exception end the process
Exit(p, changed) ==
    /\ pc' = [pc EXCEPT ![p] = "done"]
    /\ results' = [results EXCEPT
                     ![p] = Append(@, [kind |-> "exit", changed |-> changed, msg |-> NoMsg])]
    /\ kwargs' = [kwargs EXCEPT ![p] = NoKwargs]

\* exit(changed=..., stdout=stdout)
ExitStdout(p, changed, stdout) ==
    /\ pc' = [pc EXCEPT ![p] = "done"]
    /\ results' = [results EXCEPT
                     ![p] = Append(@, [kind |-> "exit", changed |-> changed, msg |-> NoMsg])]
    /\ kwargs' = [kwargs EXCEPT ![p] = [stdout |-> stdout, stderr |-> Absent]]

Fail(p, msg) ==
    /\ pc' = [pc EXCEPT ![p] = "done"]
    /\ results' = [results EXCEPT
                     ![p] = Append(@, [kind |-> "fail", changed |-> FALSE, msg |-> msg])]
    /\ kwargs' = [kwargs EXCEPT ![p] = NoKwargs]

\* fail(msg=..., stdout=..., stderr=...)
FailOutput(p, msg, stdout, stderr) ==
    /\ pc' = [pc EXCEPT ![p] = "done"]
    /\ results' = [results EXCEPT
                     ![p] = Append(@, [kind |-> "fail", changed |-> FALSE, msg |-> msg])]
    /\ kwargs' = [kwargs EXCEPT ![p] = [stdout |-> stdout, stderr |-> stderr]]

Crash(p, exc) ==
    /\ pc' = [pc EXCEPT ![p] = "done"]
    /\ results' = [results EXCEPT
                     ![p] = Append(@, [kind |-> "crash", changed |-> FALSE, msg |-> <<exc, {}>>])]
    /\ kwargs' = [kwargs EXCEPT ![p] = NoKwargs]

Init ==
    /\ \E x \in [capability : CapabilityParams, exclusive : BOOLEAN,
                  check_mode : BOOLEAN] : params = [p \in Procs |-> x]
    /\ self = [p \in Procs |-> NewSelf]
    /\ local = [p \in Procs |-> NewLocal]
    /\ pc = [p \in Procs |-> IF p = 1 THEN "new" ELSE "off"]
    /\ results = [p \in Procs |-> <<>>]
    /\ calls = [p \in Procs |-> <<>>]
    /\ fileCaps \in InitFiles
    /\ file0 = fileCaps
    /\ seen = [p \in Procs |-> [NewSeen EXCEPT !.file = fileCaps]]
    /\ stable = TRUE
    /\ kwargs = [p \in Procs |-> NoKwargs]
    /\ lastWriter = 0
    /\ mergeArgs = <<>>
    /\ mergeRet = NotCalled

(***************************************************************************)
(* _validate_params: result [fail, exclusive, clauses]                     *)
(***************************************************************************)
\* _validate_params without line 129: exclusive is left as given
_validate_params_keeps_exclusive(capability, exclusive) ==
    IF capability.type \in {"str", "list"}
    THEN LET r == IF capability.type = "str"
                  THEN _parse_clauses(SplitWS(Strip(capability.str)))
                  ELSE _parse_clauses(capability.list)
         IN  IF ~r.ok
             THEN [fail |-> NoOperatorMsg, exclusive |-> exclusive, clauses |-> <<>>]
             ELSE [fail |-> NoMsg, exclusive |-> exclusive, clauses |-> r.val]
    ELSE IF capability.type = "NoneType"
    THEN [fail |-> NoMsg, exclusive |-> exclusive, clauses |-> << <<CapAll, <<"=">>>> >>]
    ELSE [fail |-> <<"Invalid type for 'capability' param: %s", {capability.type}>>,
          exclusive |-> exclusive, clauses |-> <<>>]

_validate_params(capability, exclusive) ==
    IF capability.type \in {"str", "list"}
    THEN LET r == IF capability.type = "str"
                  THEN _parse_clauses(SplitWS(Strip(capability.str)))
                  ELSE _parse_clauses(capability.list)
         IN  IF ~r.ok
             THEN [fail |-> NoOperatorMsg, exclusive |-> exclusive, clauses |-> <<>>]
             ELSE [fail |-> NoMsg, exclusive |-> exclusive, clauses |-> r.val]
    ELSE IF capability.type = "NoneType"
    THEN [fail |-> NoMsg, exclusive |-> TRUE, clauses |-> << <<CapAll, <<"=">>>> >>]
    ELSE [fail |-> <<"Invalid type for 'capability' param: %s", {capability.type}>>,
          exclusive |-> exclusive, clauses |-> <<>>]

\* main(), __init__: a new process; build the object and validate the parameters.
\* The module is invoked again after a run only when it is invoked one run after
\* the other, not next to another process.
main(p) ==
    /\ \/ pc[p] = "new"
       \/ /\ pc[p] = "done"
          /\ Len(results[p]) < MaxRuns
          /\ \A q \in Procs \ {p} : pc[q] = "off"
    /\ LET v == _validate_params(params[p].capability, params[p].exclusive)
       IN  /\ self' = [self EXCEPT ![p] = [path |-> Strip(RawPath),
                                           exclusive |-> v.exclusive,
                                           clauses |-> v.clauses,
                                           __getcap |-> NoneVal]]
           /\ IF v.fail # NoMsg
              THEN Fail(p, v.fail)
              ELSE /\ pc' = [pc EXCEPT ![p] = "run"]
                   /\ kwargs' = [kwargs EXCEPT ![p] = NoKwargs]
                   /\ UNCHANGED results
    /\ local' = [local EXCEPT ![p] = NewLocal]
    /\ calls' = [calls EXCEPT ![p] = <<>>]
    /\ seen' = [seen EXCEPT ![p] = [NewSeen EXCEPT !.file = fileCaps]]
    /\ UNCHANGED <<params, fileCaps, file0, stable, lastWriter, mergeVars>>

\* run() that always merges
RunAlwaysMerges(exclusive) == FALSE

\* run(), line 175: self.clauses if self.exclusive else self.merge_clauses()
RunTakesDesired(exclusive) == exclusive

\* the commands given to run_command: the program, its clauses argument, the path
GetcapCmd(path) == [cmd |-> "getcap", arg |-> <<>>, path |-> path]

SetcapVerifyCmd(clauses, path) == [cmd |-> "setcap -v", arg |-> clauses, path |-> path]

\* the setcap command with the path as it was given, not stripped
SetcapCmdRawPath(clauses_str, path) ==
    [cmd |-> "setcap", arg |-> clauses_str, path |-> RawPath]

SetcapCmd(clauses_str, path) == [cmd |-> "setcap", arg |-> clauses_str, path |-> path]

\* a run_command invocation: the command and the (rc, stdout, stderr) it returned
Invocation(cmd, rc, stdout, stderr) ==
    [cmd |-> cmd.cmd, arg |-> cmd.arg, path |-> cmd.path,
     rc |-> rc, stdout |-> stdout, stderr |-> stderr]

GetcapCall(path, q) == Invocation(GetcapCmd(path), q.rc, q.stdout, q.stderr)

\* getcap() failing: fail(msg=..., stdout=stdout.strip(), stderr=stderr); the
\* failure of _parse_clauses inside getcap() gives the message only
GetcapFail(p, g, q) ==
    IF g.fail = NoOperatorMsg THEN Fail(p, g.fail)
    ELSE FailOutput(p, g.fail, Strip(q.stdout), q.stderr)

\* run(): exclusive takes self.clauses; otherwise merge_clauses() reads the file
\* with getcap() and merges self.clauses into the list getcap() returned, which
\* is the list object self.__getcap refers to
run(p) ==
    /\ pc[p] = "run"
    /\ IF RunTakesDesired(self[p].exclusive)
       THEN /\ local' = [local EXCEPT ![p].clauses = ListVal(self[p].clauses)]
            /\ pc' = [pc EXCEPT ![p] = "setcap"]
            /\ UNCHANGED <<self, results, calls, seen, stable, kwargs>>
       ELSE \E q \in GetcapRuns(self[p].path, fileCaps) :
              LET g == getcap(self[p].__getcap, self[p].path, q)
                  m == merge_clauses(g.memo, self[p].clauses)
              IN  /\ calls' = [calls EXCEPT ![p] = Append(@, GetcapCall(self[p].path, q))]
                  /\ stable' = (stable /\ q.honest)
                  /\ IF g.fail # NoMsg
                     THEN /\ GetcapFail(p, g, q)
                          /\ UNCHANGED <<self, local, seen>>
                     ELSE /\ seen' = [seen EXCEPT ![p].pre = q.stdout, ![p].read = TRUE]
                          /\ IF m.err # ""
                             THEN /\ Crash(p, m.err)
                                  /\ self' = [self EXCEPT ![p].__getcap = g.memo]
                                  /\ UNCHANGED local
                             ELSE /\ self' = [self EXCEPT ![p].__getcap = ListVal(m.val)]
                                  /\ local' = [local EXCEPT ![p].clauses = ListVal(m.val)]
                                  /\ pc' = [pc EXCEPT ![p] = "setcap"]
                                  /\ UNCHANGED <<results, kwargs>>
    /\ UNCHANGED <<params, fileCaps, file0, lastWriter, mergeVars>>

\* setcap() without the check_mode test
SetcapBranchNoCheckMode(rc, check_mode) ==
    IF rc # 0 THEN "__setcap"
    ELSE "exit"

\* setcap() that runs setcap whatever setcap -v said
SetcapBranchAlwaysSets(rc, check_mode) ==
    IF rc # 0 /\ check_mode THEN "exit changed"
    ELSE "__setcap"

\* setcap(), lines 278-284: what follows the exit status of setcap -v
SetcapBranch(rc, check_mode) ==
    IF rc # 0 /\ check_mode THEN "exit changed"
    ELSE IF rc # 0 THEN "__setcap"
    ELSE "exit"

\* setcap(): join the clauses and run setcap -v
setcap(p) ==
    /\ pc[p] = "setcap"
    /\ LET clauses == ClausesStr(local[p].clauses.list)
       IN  \E v \in SetcapVerifyRuns(clauses, fileCaps) :
             /\ local' = [local EXCEPT ![p].clauses_str = clauses]
             /\ calls' = [calls EXCEPT
                            ![p] = Append(@, Invocation(SetcapVerifyCmd(clauses, self[p].path),
                                                        v.rc, <<>>, <<>>))]
             /\ stable' = (stable /\ v.honest)
             /\ LET branch == SetcapBranch(v.rc, params[p].check_mode)
                IN  IF branch = "exit changed"
                    THEN Exit(p, TRUE)
                    ELSE IF branch = "__setcap"
                    THEN /\ pc' = [pc EXCEPT ![p] = "__setcap"]
                         /\ UNCHANGED <<results, kwargs>>
                    ELSE Exit(p, FALSE)
    /\ UNCHANGED <<params, self, seen, fileCaps, file0, lastWriter, mergeVars>>

\* __setcap(), line 292: precaps = self.getcap(), which runs getcap only when
\* nothing is cached
__setcap_precaps(p) ==
    /\ pc[p] = "__setcap"
    /\ IF self[p].__getcap.none
       THEN \E q \in GetcapRuns(self[p].path, fileCaps) :
              LET g == getcap(self[p].__getcap, self[p].path, q)
              IN  /\ calls' = [calls EXCEPT ![p] = Append(@, GetcapCall(self[p].path, q))]
                  /\ stable' = (stable /\ q.honest)
                  /\ IF g.fail # NoMsg
                     THEN /\ GetcapFail(p, g, q)
                          /\ UNCHANGED <<self, local, seen>>
                     ELSE /\ self' = [self EXCEPT ![p].__getcap = g.memo]
                          /\ local' = [local EXCEPT ![p].precaps = g.memo]
                          /\ seen' = [seen EXCEPT ![p].pre = q.stdout, ![p].read = TRUE]
                          /\ pc' = [pc EXCEPT ![p] = "__setcap_run"]
                          /\ UNCHANGED <<results, kwargs>>
       ELSE /\ local' = [local EXCEPT ![p].precaps = self[p].__getcap]
            /\ pc' = [pc EXCEPT ![p] = "__setcap_run"]
            /\ UNCHANGED <<self, results, calls, seen, stable, kwargs>>
    /\ UNCHANGED <<params, fileCaps, file0, lastWriter, mergeVars>>

\* __setcap() that takes every exit status of setcap for success
SetcapFailedNever(rc) == FALSE

\* __setcap(), line 295: if rc != 0
SetcapFailed(rc) == rc # 0

\* __setcap(), lines 293-296: run setcap
__setcap_run(p) ==
    /\ pc[p] = "__setcap_run"
    /\ \E r \in SetcapRuns(local[p].clauses_str, fileCaps) :
         /\ calls' = [calls EXCEPT
                        ![p] = Append(@, Invocation(SetcapCmd(local[p].clauses_str,
                                                              self[p].path),
                                                    r.rc, r.stdout, r.stderr))]
         /\ stable' = (stable /\ r.honest)
         /\ fileCaps' = r.caps
         /\ lastWriter' = IF r.rc = 0 THEN p ELSE lastWriter
         /\ IF SetcapFailed(r.rc)
            THEN FailOutput(p, <<"Unable to set capabilities of %s", {self[p].path}>>,
                            r.stdout, r.stderr)
            ELSE /\ pc' = [pc EXCEPT ![p] = "__setcap_check"]
                 /\ UNCHANGED <<results, kwargs>>
    /\ UNCHANGED <<params, self, local, seen, file0, mergeVars>>

\* the setcap invocation of the current run of p
SetcapInvocation(p) ==
    calls[p][CHOOSE k \in 1..Len(calls[p]) : calls[p][k].cmd = "setcap"]

\* __setcap(), lines 297-300: reread with getcap(cached=False) and compare; the
\* exits carry the stdout of the setcap invocation
__setcap_check(p) ==
    /\ pc[p] = "__setcap_check"
    /\ \E q \in GetcapRuns(self[p].path, fileCaps) :
         LET g == getcap(self[p].__getcap, self[p].path, q)
         IN  /\ calls' = [calls EXCEPT ![p] = Append(@, GetcapCall(self[p].path, q))]
             /\ stable' = (stable /\ q.honest)
             /\ IF g.fail # NoMsg
                THEN /\ GetcapFail(p, g, q)
                     /\ UNCHANGED <<self, seen>>
                ELSE /\ self' = [self EXCEPT ![p].__getcap = g.memo]
                     /\ seen' = [seen EXCEPT ![p].post = q.stdout, ![p].checked = TRUE]
                     /\ IF local[p].precaps # g.memo
                        THEN ExitStdout(p, TRUE, SetcapInvocation(p).stdout)
                        ELSE ExitStdout(p, FALSE, SetcapInvocation(p).stdout)
    /\ UNCHANGED <<params, local, fileCaps, file0, lastWriter, mergeVars>>

\* one process at a time: invocation 2 is not started
Next ==
    \/ main(1)
    \/ run(1)
    \/ setcap(1)
    \/ __setcap_precaps(1)
    \/ __setcap_run(1)
    \/ __setcap_check(1)

Spec == Init /\ [][Next]_vars

(***************************************************************************)
(* Two invocations of the module at the same time on the same file, each   *)
(* with its own parameters: independent processes that share the file and  *)
(* nothing else.  Each is invoked once, outside check mode, with one       *)
(* clause.                                                                 *)
(***************************************************************************)
ConcParams ==
    {x \in [capability : CapabilityParams, exclusive : BOOLEAN, check_mode : {FALSE}] :
        x.capability.type = "list" /\ Len(x.capability.list) = 1}

ConcInit ==
    /\ params \in [Procs -> ConcParams]
    /\ self = [p \in Procs |-> NewSelf]
    /\ local = [p \in Procs |-> NewLocal]
    /\ pc = [p \in Procs |-> "new"]
    /\ results = [p \in Procs |-> <<>>]
    /\ calls = [p \in Procs |-> <<>>]
    /\ fileCaps \in InitFiles
    /\ file0 = fileCaps
    /\ seen = [p \in Procs |-> [NewSeen EXCEPT !.file = fileCaps]]
    /\ stable = TRUE
    /\ kwargs = [p \in Procs |-> NoKwargs]
    /\ lastWriter = 0
    /\ mergeArgs = <<>>
    /\ mergeRet = NotCalled

ConcNext ==
    \E p \in Procs :
        \/ main(p)
        \/ run(p)
        \/ setcap(p)
        \/ __setcap_precaps(p)
        \/ __setcap_run(p)
        \/ __setcap_check(p)

ConcSpec == ConcInit /\ [][ConcNext]_vars

(***************************************************************************)
(* _merge_actions on its own: the arguments are drawn from the action      *)
(* lists written with at most MaxActionChars characters, a space between   *)
(* two actions, and the call is the only step.                             *)
(***************************************************************************)
MaxActionChars == 5

RECURSIVE StringsUpTo(_, _)
StringsUpTo(chars, n) ==
    IF n = 0 THEN {<<>>}
    ELSE StringsUpTo(chars, n - 1) \cup
         {Append(t, c) : t \in {u \in StringsUpTo(chars, n - 1) : Len(u) = n - 1},
                         c \in chars}

\* the argument tuples of _merge_actions(*actions), () included
MergeInputs ==
    {<<>>} \cup {SplitChar(t, " ") : t \in StringsUpTo(OPS \cup FlagChars \cup {" "},
                                                        MaxActionChars)}

MergeInit ==
    /\ mergeArgs \in MergeInputs
    /\ mergeRet = NotCalled
    /\ params = [p \in Procs |->
                   [capability |-> [type |-> "NoneType", str |-> <<>>, list |-> <<>>],
                    exclusive |-> FALSE, check_mode |-> FALSE]]
    /\ self = [p \in Procs |-> NewSelf]
    /\ local = [p \in Procs |-> NewLocal]
    /\ pc = [p \in Procs |-> "off"]
    /\ results = [p \in Procs |-> <<>>]
    /\ calls = [p \in Procs |-> <<>>]
    /\ fileCaps = NoCaps
    /\ file0 = NoCaps
    /\ seen = [p \in Procs |-> NewSeen]
    /\ stable = TRUE
    /\ kwargs = [p \in Procs |-> NoKwargs]
    /\ lastWriter = 0

\* self._merge_actions(*mergeArgs)
MergeCall ==
    /\ mergeRet = NotCalled
    /\ mergeRet' = _merge_actions(mergeArgs)
    /\ UNCHANGED <<params, self, local, pc, results, calls, seen, fileCaps, file0,
                   stable, kwargs, lastWriter, mergeArgs>>

MergeNext == MergeCall

MergeSpec == MergeInit /\ [][MergeNext]_vars

(***************************************************************************)
(* Properties                                                              *)
(***************************************************************************)
Done(p) == pc[p] = "done"

\* what the current run of p reported
Outcome(p) == results[p][Len(results[p])]

ExitChanged == [kind |-> "exit", changed |-> TRUE, msg |-> NoMsg]

ExitUnchanged == [kind |-> "exit", changed |-> FALSE, msg |-> NoMsg]

\* the clause list the run composed for setcap exists
Composed(p) == ~local[p].clauses.none

Candidate(p) == local[p].clauses.list

\* the capability names of a clause list
CapsOf(clauses) == {clauses[k][1] : k \in 1..Len(clauses)}

\* the setcap -v and setcap invocations of the current run
SetterCalls(p) == {k \in 1..Len(calls[p]) : calls[p][k].cmd \in {"setcap -v", "setcap"}}

\* the capability set the desired clauses ask for: the clauses applied, as
\* cap_from_text(3) does, to nothing (exclusive) or to what the file held
DesiredResult(p) ==
    EnvClauses(IF self[p].exclusive THEN NoCaps ELSE file0,
               [k \in 1..Len(self[p].clauses) |->
                  self[p].clauses[k][1] \o self[p].clauses[k][2]])

\* C1: with a faithful getcap/setcap and no other writer, outside check mode,
\* when the file's capability set differs from the one the desired clauses
\* ask for, the first run reports changed=true and the second changed=false.
C1_Idempotence ==
    ( /\ Done(1)
      /\ stable
      /\ ~params[1].check_mode
      /\ _validate_params(params[1].capability, params[1].exclusive).fail = NoMsg
      /\ DesiredResult(1).ok
      /\ DesiredResult(1).caps # file0 )
    => /\ results[1][1] = ExitChanged
       /\ Len(results[1]) = 2 => results[1][2] = ExitUnchanged

\* the clause list a successful getcap output denotes (empty for the bare path)
Reported(p, stdout) ==
    IF Strip(stdout) = self[p].path THEN <<>>
    ELSE _parse_clauses(SplitWS(Strip(SplitSpEq(stdout)[2]))).val

\* the clause list the file had when the current run of p first read it
Before(p) == Reported(p, seen[p].pre)

\* C2: when setcap exited 0 and the clause list read from the file afterwards
\* differs from the one the file had before, the run ends with changed=true.
C2_ChangeReported ==
    \A p \in Procs :
        (Done(p) /\ seen[p].checked /\ Reported(p, seen[p].post) # Before(p))
        => Outcome(p) = ExitChanged

\* C3: in a non-exclusive run every clause set on the file whose capability is
\* not named by the desired clauses is in the clause list given to setcap,
\* action unchanged.
C3_CurrentKept ==
    \A p \in Procs :
        (Composed(p) /\ ~self[p].exclusive)
        => /\ \A k \in 1..Len(Before(p)) :
                Before(p)[k][1] \notin CapsOf(self[p].clauses)
                => \E j \in 1..Len(Candidate(p)) : Candidate(p)[j] = Before(p)[k]
           /\ \A k \in SetterCalls(p) : calls[p][k].arg = ClausesStr(Candidate(p))

\* a non-exclusive run called setcap -v with a clause of the file that the
\* desired clauses do not name, next to one that they do
C3_Witness ==
    \E p \in Procs :
        /\ ~self[p].exclusive
        /\ SetterCalls(p) # {}
        /\ \E k \in 1..Len(Before(p)) :
              Before(p)[k][1] \notin CapsOf(self[p].clauses)
        /\ \E k \in 1..Len(Before(p)) :
              Before(p)[k][1] \in CapsOf(self[p].clauses)

\* the actions of the desired clauses that name cap, in input order
RECURSIVE ActionsFor(_, _)
ActionsFor(cap, desired) ==
    IF desired = <<>> THEN <<>>
    ELSE (IF Head(desired)[1] = cap THEN <<Head(desired)[2]>> ELSE <<>>)
         \o ActionsFor(cap, Tail(desired))

\* merge the desired actions one after the other onto the existing action
RECURSIVE ChainMerge(_, _)
ChainMerge(existing, actions) ==
    IF actions = <<>> THEN existing
    ELSE ChainMerge(_merge_actions(<<existing, Head(actions)>>).val, Tail(actions))

\* C4 as stated: in a non-exclusive run the candidate clause of a capability
\* set on the file has, for each desired clause naming it, the action
\* merge([existing, desired]); desired clauses of other capabilities are
\* appended unchanged.
C4_MergedPairwise ==
    \A p \in Procs :
        (Composed(p) /\ ~self[p].exclusive)
        => LET pre == Before(p)
               desired == self[p].clauses
           IN  /\ \A k \in 1..Len(pre) : \A d \in 1..Len(desired) :
                     desired[d][1] = pre[k][1]
                     => Candidate(p)[k] =
                          <<pre[k][1], _merge_actions(<<pre[k][2], desired[d][2]>>).val>>
               /\ SubSeq(Candidate(p), Len(pre) + 1, Len(Candidate(p))) =
                     SelectSeq(desired, LAMBDA c : c[1] \notin CapsOf(pre))

\* C4 amended: the candidate clause of a capability set on the file has the
\* action obtained by merging the desired actions for it onto the existing
\* action one after the other, in input order (merge([existing, desired]) when
\* one desired clause names it); desired clauses of other capabilities are
\* appended unchanged.
C4_MergedInOrder ==
    \A p \in Procs :
        (Composed(p) /\ ~self[p].exclusive)
        => LET pre == Before(p)
               desired == self[p].clauses
           IN  /\ Len(Candidate(p)) >= Len(pre)
               /\ \A k \in 1..Len(pre) :
                     Candidate(p)[k] =
                        <<pre[k][1], ChainMerge(pre[k][2], ActionsFor(pre[k][1], desired))>>
               /\ \A k \in 1..Len(pre) :
                     Len(ActionsFor(pre[k][1], desired)) = 1
                     => Candidate(p)[k][2] =
                          _merge_actions(<<pre[k][2],
                                           ActionsFor(pre[k][1], desired)[1]>>).val
               /\ SubSeq(Candidate(p), Len(pre) + 1, Len(Candidate(p))) =
                     SelectSeq(desired, LAMBDA c : c[1] \notin CapsOf(pre))

\* the file has a+ep, the desired clause is a-e, and setcap -v was given a=p
C4_Witness ==
    \E p \in Procs :
        /\ ~self[p].exclusive
        /\ SetterCalls(p) # {}
        /\ Before(p) = << <<CapA, <<"+", "e", "p">>>> >>
        /\ self[p].clauses = << <<CapA, <<"-", "e">>>>, <<CapB, <<"+", "e">>>> >>
        /\ Candidate(p) = << <<CapA, <<"=", "p">>>>, <<CapB, <<"+", "e">>>> >>

\* C5: in exclusive mode the clause list given to setcap is the desired
\* clauses and nothing else, and getcap is not run before setcap -v.
C5_ExclusiveDesiredOnly ==
    \A p \in Procs :
        (Composed(p) /\ self[p].exclusive)
        => /\ Candidate(p) = self[p].clauses
           /\ \A k \in 1..Len(calls[p]) :
                calls[p][k].cmd = "setcap -v"
                => /\ calls[p][k].arg = ClausesStr(self[p].clauses)
                   /\ \A j \in 1..(k - 1) : calls[p][j].cmd # "getcap"

\* exclusive was asked for, the file holds a capability the desired clauses
\* do not name, and setcap -v was run
C5_Witness ==
    \E p \in Procs :
        /\ params[p].exclusive
        /\ params[p].capability.type = "list"
        /\ \E c \in CapNames : fileCaps[c] # {} /\ c \notin CapsOf(self[p].clauses)
        /\ \E k \in 1..Len(calls[p]) : calls[p][k].cmd = "setcap -v"

AllEq == <<"a", "l", "l", "=">>

\* C6: with the capability parameter absent, exclusive is forced on whatever
\* was asked, and the clause list is [("all", "=")], given to setcap as all=.
C6_AbsentClearsAll ==
    \A p \in Procs :
        (params[p].capability.type = "NoneType" /\ pc[p] \notin {"new", "off"})
        => /\ self[p].exclusive
           /\ self[p].clauses = << <<CapAll, <<"=">>>> >>
           /\ Composed(p) => Candidate(p) = << <<CapAll, <<"=">>>> >>
           /\ \A k \in SetterCalls(p) : calls[p][k].arg = AllEq

\* capability absent, exclusive not asked for, the file holds capabilities,
\* and setcap was run
C6_Witness ==
    \E p \in Procs :
        /\ params[p].capability.type = "NoneType"
        /\ ~params[p].exclusive
        /\ seen[p].file # NoCaps
        /\ \E k \in 1..Len(calls[p]) : calls[p][k].cmd = "setcap" /\ calls[p][k].arg = AllEq

\* C7: when setcap exited 0 and getcap prints afterwards what it printed
\* before, so that the clauses read are equal, the run ends with changed=false
\* and not with a failure.
C7_NoChangeReported ==
    \A p \in Procs :
        (Done(p) /\ seen[p].checked /\ seen[p].post = seen[p].pre)
        => Outcome(p) = ExitUnchanged

\* the setcap -v invocation of the current run exited with a status in rcs
VerifyExit(p, rcs) ==
    \E k \in 1..Len(calls[p]) : calls[p][k].cmd = "setcap -v" /\ calls[p][k].rc \in rcs

\* C8: in check mode, when setcap -v exits nonzero the run ends with
\* changed=true, setcap is not run, and the file's capability set is the one
\* it had when the run started.
C8_CheckModeNoMutation ==
    \A p \in Procs :
        (params[p].check_mode /\ VerifyExit(p, {1}))
        => /\ Done(p)
           /\ Outcome(p) = ExitChanged
           /\ \A k \in 1..Len(calls[p]) : calls[p][k].cmd # "setcap"
           /\ fileCaps = seen[p].file

\* check mode, setcap -v was right to exit nonzero
C8_Witness ==
    \E p \in Procs :
        /\ params[p].check_mode
        /\ VerifyExit(p, {1})
        /\ stable
        /\ Done(p)

\* C9: when setcap -v exits 0 the run ends with changed=false and that
\* invocation is the last one of the run.
C9_VerifiedNoOp ==
    \A p \in Procs :
        VerifyExit(p, {0})
        => /\ Done(p)
           /\ Outcome(p) = ExitUnchanged
           /\ calls[p][Len(calls[p])].cmd = "setcap -v"

\* outside check mode, a non-exclusive run read the file, merged, and setcap -v
\* exited 0 for a file that holds capabilities
C9_Witness ==
    \E p \in Procs :
        /\ ~params[p].check_mode
        /\ ~self[p].exclusive
        /\ seen[p].read
        /\ fileCaps # NoCaps
        /\ VerifyExit(p, {0})

\* the tokens of a string or list capability parameter
TokensOf(capability) ==
    IF capability.type = "str" THEN SplitWS(Strip(capability.str)) ELSE capability.list

NoOperatorIn(token) == \A k \in 1..Len(token) : token[k] \notin {"=", "-", "+"}

\* C10: a desired token without any of = - +, the capability parameter being
\* given, makes the run fail with the message that names the operators,
\* before getcap or setcap is run.
C10_NoOperatorFails ==
    \A p \in Procs :
        ( /\ pc[p] \notin {"new", "off"}
          /\ params[p].capability.type \in {"str", "list"}
          /\ \E k \in 1..Len(TokensOf(params[p].capability)) :
                NoOperatorIn(TokensOf(params[p].capability)[k]) )
        => /\ Done(p)
           /\ Outcome(p) = [kind |-> "fail", changed |-> FALSE,
                            msg |-> <<"Couldn't find operator (one of: %s)",
                                      {"=", "-", "+"}>>]
           /\ calls[p] = <<>>

\* the second of two desired tokens has no operator and the run has ended
C10_Witness ==
    \E p \in Procs :
        /\ Done(p)
        /\ params[p].capability.type = "list"
        /\ Len(params[p].capability.list) = 2
        /\ ~NoOperatorIn(params[p].capability.list[1])
        /\ NoOperatorIn(params[p].capability.list[2])

\* a getcap invocation that getcap() takes for failed: nonzero exit status, or
\* an output that is neither the bare path nor has exactly one " ="
FailedQuery(c) ==
    /\ c.cmd = "getcap"
    /\ c.rc # 0 \/ (Strip(c.stdout) # c.path /\ CountSpEq(c.stdout) # 1)

\* a setcap invocation (not setcap -v) that exited nonzero
FailedApply(c) == c.cmd = "setcap" /\ c.rc # 0

C12_BarePathReadsEmpty ==
    \A p \in Procs :
        (~self[p].exclusive /\ seen[p].read /\ Strip(seen[p].pre) = self[p].path)
        => /\ Composed(p)
           /\ Candidate(p) = self[p].clauses
           /\ Done(p) => /\ VerifyExit(p, {0, 1})
                         /\ Outcome(p).kind \in {"exit", "fail"}

\* C13: getcap(cached=False) returns, and leaves in the memo, the clause list
\* that the getcap invocation it made reported (the empty list, or nothing, for
\* the bare path), whatever the memo held.
C13_BypassOverwritesMemo ==
    \A p \in Procs :
        seen[p].checked => self[p].__getcap.list = Reported(p, seen[p].post)

\* C14: the clause list composed for setcap names each capability once.
C14_UniqueNames ==
    \A p \in Procs :
        Composed(p)
        => \A i, j \in 1..Len(Candidate(p)) :
              Candidate(p)[i][1] = Candidate(p)[j][1] => i = j

\* C15: in a non-exclusive run the snapshot precaps that __setcap takes from
\* the memo is the clause list that getcap reported when the run read the file.
C15_SnapshotIsPreState ==
    \A p \in Procs :
        (~self[p].exclusive /\ ~local[p].precaps.none)
        => local[p].precaps.list = Before(p)

\* an action string that the merge must accept: only = + - e i p, at most one
\* =, no flag before the first operator, no operator next to an operator
AdjacentOperators(action) ==
    \E k \in 1..(Len(action) - 1) : action[k] \in OPS /\ action[k + 1] \in OPS

WellFormed(action) ==
    /\ \A k \in 1..Len(action) : action[k] \in OPS \cup FlagChars
    /\ \A j, k \in 1..Len(action) : (action[j] = "=" /\ action[k] = "=") => j = k
    /\ action # <<>> => action[1] \in OPS
    /\ ~AdjacentOperators(action)

\* the actions written one after the other
RECURSIVE Flatten(_)
Flatten(actions) ==
    IF actions = <<>> THEN <<>> ELSE Head(actions) \o Flatten(Tail(actions))

\* the flag set after a left-to-right scan: = clears and adds, + adds,
\* - removes
RECURSIVE ScanFlags(_, _, _)
ScanFlags(flags, adding, chars) ==
    IF chars = <<>> THEN flags
    ELSE IF Head(chars) = "=" THEN ScanFlags({}, TRUE, Tail(chars))
    ELSE IF Head(chars) = "+" THEN ScanFlags(flags, TRUE, Tail(chars))
    ELSE IF Head(chars) = "-" THEN ScanFlags(flags, FALSE, Tail(chars))
    ELSE ScanFlags(IF adding THEN flags \cup {Head(chars)} ELSE flags \ {Head(chars)},
                   adding, Tail(chars))

\* e before i before p
Alphabetical(c, d) == <<c, d>> \in {<<"e", "i">>, <<"e", "p">>, <<"i", "p">>}

\* C16: for well-formed action strings _merge_actions returns = followed by
\* the flags, each once and in alphabetical order, of the set that a
\* left-to-right scan over all the actions one after the other leaves.
C16_MergeIsLeftToRightScan ==
    (mergeRet # NotCalled /\ \A k \in 1..Len(mergeArgs) : WellFormed(mergeArgs[k]))
    => /\ mergeRet.err = ""
       /\ Len(mergeRet.val) >= 1
       /\ mergeRet.val[1] = "="
       /\ LET written == Tail(mergeRet.val)
          IN  /\ {written[k] : k \in 1..Len(written)}
                   = ScanFlags({}, TRUE, Flatten(mergeArgs))
              /\ \A j, k \in 1..Len(written) :
                    j < k => Alphabetical(written[j], written[k])

\* _merge_actions("+ei-e") returned "=i"
C16_Witness ==
    /\ mergeArgs = << <<"+", "e", "i", "-", "e">> >>
    /\ mergeRet = [err |-> "", val |-> <<"=", "i">>]

\* C17: when an action string has two operator characters next to each other,
\* _merge_actions raises and returns no merged action.
C17_AdjacentOperatorsFail ==
    (mergeRet # NotCalled /\ \E k \in 1..Len(mergeArgs) : AdjacentOperators(mergeArgs[k]))
    => mergeRet.err # ""

\* two clause lists that hold the same (capability, action) pairs
SamePairs(a, b) ==
    /\ Len(a) = Len(b)
    /\ {a[k] : k \in 1..Len(a)} = {b[k] : k \in 1..Len(b)}

\* C18: when the snapshot precaps and the clause list read after setcap hold
\* the same (capability, action) pairs, in whatever order, the run ends with
\* changed=false.
C18_OrderIndependentCompare ==
    \A p \in Procs :
        ( /\ Done(p)
          /\ seen[p].checked
          /\ ~local[p].precaps.none
          /\ ~self[p].__getcap.none
          /\ SamePairs(local[p].precaps.list, self[p].__getcap.list) )
        => Outcome(p) = ExitUnchanged

\* C19: a run invokes setcap (without -v) at most once, outside check mode,
\* and after a setcap -v of the same run that exited nonzero and had the same
\* clauses argument and the same path.
C19_ApplyOnceAfterVerify ==
    \A p \in Procs : \A k \in 1..Len(calls[p]) :
        calls[p][k].cmd = "setcap"
        => /\ ~params[p].check_mode
           /\ \A j \in 1..Len(calls[p]) : calls[p][j].cmd = "setcap" => j = k
           /\ \E j \in 1..(k - 1) :
                /\ calls[p][j].cmd = "setcap -v"
                /\ calls[p][j].rc # 0
                /\ calls[p][j].arg = calls[p][k].arg
                /\ calls[p][j].path = calls[p][k].path

\* the second run on the file has ended, after setcap -v, getcap and setcap
\* with two clauses
C19_Witness ==
    \E p \in Procs :
        /\ Done(p)
        /\ Len(results[p]) = 2
        /\ Len(Candidate(p)) = 2
        /\ \E k \in 3..Len(calls[p]) :
              /\ calls[p][k].cmd = "setcap"
              /\ calls[p][k - 1].cmd = "getcap"

\* the current run of p invoked setcap and it exited 0
Applied(p) == \E k \in 1..Len(calls[p]) : calls[p][k].cmd = "setcap" /\ calls[p][k].rc = 0

\* C20: two non-exclusive runs at the same time on one file are last writer
\* wins, undetected: when both have applied and ended, with getcap and setcap
\* faithful, the file holds the capability set of the clauses of the run
\* whose setcap exited last, and neither run has reported a failure.
C20_LastWriterWins ==
    (Done(1) /\ Done(2) /\ Applied(1) /\ Applied(2) /\ stable)
    => /\ lastWriter \in Procs
       /\ fileCaps = CapFromText(local[lastWriter].clauses_str).caps
       /\ \A p \in Procs : Outcome(p).kind = "exit"

\* both runs read the same getcap output, both applied and ended without
\* failure, and the file holds the capability that the run that applied last
\* added and lacks the one, not on the file before, that the run that applied
\* first added
C20_Witness ==
    /\ Done(1) /\ Done(2) /\ Applied(1) /\ Applied(2) /\ stable
    /\ \A p \in Procs : Len(results[p]) = 1 /\ Outcome(p).kind = "exit"
    /\ ~self[1].exclusive /\ ~self[2].exclusive
    /\ seen[1].pre = seen[2].pre
    /\ fileCaps = CapFromText(local[lastWriter].clauses_str).caps
    /\ \E first \in Procs \ {lastWriter} : \E c, d \in CapNames :
          /\ file0[c] = {}
          /\ CapFromText(local[first].clauses_str).caps[c] # {}
          /\ fileCaps[c] = {}
          /\ file0[d] = {}
          /\ fileCaps[d] # {}

=============================================================================
